---- MODULE Spec2Model ----
(***************************************************************************)
(* DNS wire-format codec of src/msg.go: packDomainName / unpackDomainName, *)
(* the reflection-driven packStructValue / unpackStructValue, packRR /     *)
(* unpackRR and Msg.Pack / Msg.Unpack.                                     *)
(*                                                                         *)
(* Conventions.  A Go []byte or string is a sequence of numbers 0..255;    *)
(* the Go index i is the TLA+ index i+1.  Every packer and unpacker        *)
(* returns a record that carries, next to the Go results, a field fault:   *)
(* "" when the call returned, "msg" when it accessed the buffer outside    *)
(* [0, len(msg)) (a Go run-time panic, or a read past len inside the       *)
(* capacity), "slice" when it indexed a value slice out of range.          *)
(***************************************************************************)
EXTENDS Integers, Sequences, FiniteSets, TLC

VARIABLES
    msg,     \* the byte buffer the packers / unpackers work on
    off,     \* the offset threaded through the calls
    ok,      \* the ok of the last call
    last,    \* what the last call was, with its argument and its result
    failed,  \* some call of the sequence has failed
    calls,   \* number of calls made on this buffer
    nst,     \* unpackDomainName in progress: its local variables
    steps,   \* unpackDomainName in progress: loop iterations executed
    dns,     \* the Msg handed to Pack
    wire,    \* what Pack returned
    back     \* what Unpack made of the packed bytes

vars == <<msg, off, ok, last, failed, calls, nst, steps, dns, wire, back>>

(***************************************************************************)
(* Bytes and characters                                                    *)
(***************************************************************************)
Byte == 0..255

\* '.'
Dot == 46

\* byte(x): the low eight bits
ToByte(x) == x % 256

\* n copies of the byte c
Rep(c, n) == [i \in 1..n |-> c]

\* the one element of a singleton set.  Only({e : r \in {v}}) is e with r bound
\* to the value of v, so that v is computed once however often e reads r.
Only(S) == CHOOSE x \in S : TRUE

\* msg[lo:hi] for 0 <= lo <= hi <= len(msg)
Slice(m, lo, hi) == SubSeq(m, lo + 1, hi)

\* msg[off+k] = bytes[k] for every k: a run of byte stores
WriteAt(m, o, bytes) ==
    SubSeq(m, 1, o) \o bytes \o SubSeq(m, o + Len(bytes) + 1, Len(m))

\* big-endian bytes of a uint16 / uint32; a uint32 is kept as its two 16-bit
\* halves <<high, low>>
U16(x) == <<ToByte(x \div 256), ToByte(x)>>

U32(x) == U16(x[1]) \o U16(x[2])

(***************************************************************************)
(* unpackDomainName (msg.go 148-197), one loop iteration at a time         *)
(***************************************************************************)
\* the number of compression pointers followed before giving up
MaxPointers == 10

\* the locals on entry: s = "", ptr = 0, the named result off1 = 0
UDNInit(o) == [s |-> <<>>, off |-> o, ptr |-> 0, off1 |-> 0, pc |-> "loop"]

\* return "", len(msg), false
UDNFail(m, st) == [st EXCEPT !.s = <<>>, !.off1 = Len(m), !.pc = "fail"]

\* a variant that reports the offset after the zero byte even when a pointer was followed
UDNEndAfterZero(m, st) ==
    [st EXCEPT !.off = st.off + 1, !.off1 = st.off + 1, !.pc = "ok"]

\* case 0x00: end of name (break Loop, then the code after the loop)
UDNEnd(m, st) ==
    [st EXCEPT !.off = st.off + 1,
               !.off1 = IF st.ptr = 0 THEN st.off + 1 ELSE st.off1,
               !.pc = "ok"]

\* case 0x00, c # 0: a literal label
UDNLiteral(m, st) ==
    LET c == m[st.off + 1]
        o == st.off + 1
    IN  IF o + c > Len(m) THEN UDNFail(m, st)
        ELSE [st EXCEPT !.s = st.s \o Slice(m, o, o + c) \o <<Dot>>,
                        !.off = o + c]

\* a variant that follows pointers without counting them
UDNPointerUncapped(m, st) ==
    LET c == m[st.off + 1]
        o == st.off + 1
    IN  IF o >= Len(m) THEN UDNFail(m, st)
        ELSE [st EXCEPT !.off = (c - 192) * 256 + m[o + 1],
                        !.ptr = st.ptr + 1,
                        !.off1 = IF st.ptr = 0 THEN o + 1 ELSE st.off1]

\* case 0xC0: a pointer to somewhere else in msg
UDNPointer(m, st) ==
    LET c == m[st.off + 1]
        o == st.off + 1
    IN  IF o >= Len(m) THEN UDNFail(m, st)
        ELSE LET c1 == m[o + 1]
                 o1 == IF st.ptr = 0 THEN o + 1 ELSE st.off1
             IN  IF st.ptr + 1 > MaxPointers
                 THEN [UDNFail(m, st) EXCEPT !.ptr = st.ptr + 1]
                 ELSE [st EXCEPT !.off = (c - 192) * 256 + c1,
                                 !.ptr = st.ptr + 1,
                                 !.off1 = o1]

\* which branch of the loop body the next iteration takes
UDNCase(m, st) ==
    IF st.off >= Len(m) THEN "truncated"
    ELSE LET c == m[st.off + 1]
         IN  CASE c \div 64 = 0 -> IF c = 0 THEN "end" ELSE "literal"
               [] c \div 64 = 3 -> "pointer"
               [] OTHER -> "reserved"

\* one iteration of the for loop
UDNStep(m, st) ==
    Only({CASE c = "end" -> UDNEnd(m, st)
            [] c = "literal" -> UDNLiteral(m, st)
            [] c = "pointer" -> UDNPointer(m, st)
            [] OTHER -> UDNFail(m, st) : c \in {UDNCase(m, st)}})

RECURSIVE UDNRun(_, _)
UDNRun(m, st) == IF st.pc # "loop" THEN st ELSE UDNRun(m, UDNStep(m, st))

\* unpackDomainName(msg, off) = (s, off1, ok)
unpackDomainName(m, o) ==
    Only({[s |-> st.s, off |-> st.off1, ok |-> st.pc = "ok"] :
            st \in {UDNRun(m, UDNInit(o))}})

(***************************************************************************)
(* packDomainName (msg.go 95-133)                                          *)
(***************************************************************************)
\* what every packer / unpacker returns when it gives up: len(msg), false
PackFail(m) == [msg |-> m, off |-> Len(m), ok |-> FALSE, fault |-> ""]

PackOk(m, o) == [msg |-> m, off |-> o, ok |-> TRUE, fault |-> ""]

\* a run-time panic (or an access past len(msg)) inside a packer
PackFault(m, why) == [msg |-> m, off |-> Len(m), ok |-> FALSE, fault |-> why]

\* "Add trailing dot to canonicalize name."
Canonical(s) == IF Len(s) = 0 \/ s[Len(s)] # Dot THEN s \o <<Dot>> ELSE s

\* 1<<6: the top two bits of a length byte must be clear
LabelLimit == 64

\* the test "i-begin >= 1<<6"
PDNLabelTooLong(n) == n >= LabelLimit

\* the Go indices >= begin at which s holds a dot
DotsFrom(s, begin) == {i \in begin..(Len(s) - 1) : s[i + 1] = Dot}

SetMin(S) == CHOOSE x \in S : \A y \in S : x <= y

\* the loop "for i := 0; i < len(s); i++", resumed at the label that starts at begin
RECURSIVE PDNLoop(_, _, _, _)
PDNLoop(s, m, o, begin) ==
    Only({IF dots = {} THEN PackOk(m, o)
          ELSE Only({IF PDNLabelTooLong(i - begin) THEN PackFail(m)
                     ELSE PDNLoop(s,
                                  WriteAt(m, o, <<ToByte(i - begin)>>
                                                \o SubSeq(s, begin + 1, i)),
                                  o + 1 + (i - begin),
                                  i + 1) : i \in {SetMin(dots)}}) :
            dots \in {DotsFrom(s, begin)}})

\* packDomainName(s, msg, off) = (off1, ok), and the buffer as it leaves it
packDomainName(s0, m, o) ==
    Only({IF o + (Len(s) + 1) > Len(m) THEN PackFail(m)
          ELSE Only({IF ~r.ok THEN r
                     ELSE IF s = <<Dot>> THEN r
                     ELSE PackOk(WriteAt(r.msg, r.off, <<0>>), r.off + 1) :
                        r \in {PDNLoop(s, m, o, 0)}}) :
            s \in {Canonical(s0)}})

(***************************************************************************)
(* encoding/hex and encoding/base64 as msg.go uses them                    *)
(***************************************************************************)
IsHexDigit(c) == c \in 48..57 \/ c \in 97..102 \/ c \in 65..70

HexVal(c) == IF c \in 48..57 THEN c - 48
             ELSE IF c \in 97..102 THEN c - 87
             ELSE c - 55

\* lowercase digit of a nibble
HexChar(v) == IF v < 10 THEN 48 + v ELSE 87 + v

\* hex.DecodedLen
HexDecodedLen(n) == n \div 2

\* hex.DecodeString: err on odd length or a non-digit
HexDecode(s) ==
    IF Len(s) % 2 = 1 \/ \E i \in 1..Len(s) : ~IsHexDigit(s[i])
    THEN [err |-> TRUE, bytes |-> <<>>]
    ELSE [err |-> FALSE,
          bytes |-> [k \in 1..(Len(s) \div 2) |->
                        HexVal(s[2 * k - 1]) * 16 + HexVal(s[2 * k])]]

\* hex.EncodeToString
HexEncode(b) ==
    [k \in 1..(2 * Len(b)) |->
        IF k % 2 = 1 THEN HexChar(b[(k + 1) \div 2] \div 16)
        ELSE HexChar(b[k \div 2] % 16)]

\* the standard alphabet: A-Z a-z 0-9 + /
B64Char(v) == IF v < 26 THEN 65 + v
              ELSE IF v < 52 THEN 97 + (v - 26)
              ELSE IF v < 62 THEN 48 + (v - 52)
              ELSE IF v = 62 THEN 43 ELSE 47

IsB64Char(c) == c \in 65..90 \/ c \in 97..122 \/ c \in 48..57 \/ c = 43 \/ c = 47

B64Val(c) == IF c \in 65..90 THEN c - 65
             ELSE IF c \in 97..122 THEN c - 97 + 26
             ELSE IF c \in 48..57 THEN c - 48 + 52
             ELSE IF c = 43 THEN 62 ELSE 63

\* base64.StdEncoding.DecodedLen: the maximum, padding not looked at
B64DecodedLen(n) == (n \div 4) * 3

\* base64.StdEncoding.EncodedLen
B64EncodedLen(n) == ((n + 2) \div 3) * 4

\* the bytes of one quantum of four characters, the last quantum possibly padded
B64Quantum(q, isLast) ==
    LET npad == IF q[4] = 61 THEN (IF q[3] = 61 THEN 2 ELSE 1) ELSE 0
        good == /\ IsB64Char(q[1]) /\ IsB64Char(q[2])
                /\ (npad = 2 \/ IsB64Char(q[3]))
                /\ (npad >= 1 \/ IsB64Char(q[4]))
                /\ (npad > 0 => isLast)
        v(k) == IF k > 4 - npad THEN 0 ELSE B64Val(q[k])
        n == ((v(1) * 64 + v(2)) * 64 + v(3)) * 64 + v(4)
        all == <<n \div 65536, (n \div 256) % 256, n % 256>>
    IN  IF ~good THEN [err |-> TRUE, bytes |-> <<>>]
        ELSE [err |-> FALSE, bytes |-> SubSeq(all, 1, 3 - npad)]

RECURSIVE B64DecodeFrom(_, _)
B64DecodeFrom(s, k) ==
    IF k > Len(s) THEN [err |-> FALSE, bytes |-> <<>>]
    ELSE Only({IF q.err \/ rest.err THEN [err |-> TRUE, bytes |-> <<>>]
               ELSE [err |-> FALSE, bytes |-> q.bytes \o rest.bytes] :
                 q \in {B64Quantum(SubSeq(s, k, k + 3), k + 4 > Len(s))},
                 rest \in {B64DecodeFrom(s, k + 4)}})

\* base64.StdEncoding.Decode: err on a length that is no multiple of 4 or a bad character
B64Decode(s) ==
    IF Len(s) % 4 # 0 THEN [err |-> TRUE, bytes |-> <<>>] ELSE B64DecodeFrom(s, 1)

RECURSIVE B64Encode(_)
B64Encode(b) ==
    IF Len(b) = 0 THEN <<>>
    ELSE LET k == IF Len(b) >= 3 THEN 3 ELSE Len(b)
             x(i) == IF i <= k THEN b[i] ELSE 0
             n == (x(1) * 256 + x(2)) * 256 + x(3)
             c == <<B64Char(n \div 262144), B64Char((n \div 4096) % 64),
                    B64Char((n \div 64) % 64), B64Char(n % 64)>>
             q == IF k = 3 THEN c
                  ELSE IF k = 2 THEN <<c[1], c[2], c[3], 61>>
                  ELSE <<c[1], c[2], 61, 61>>
         IN  q \o B64Encode(SubSeq(b, k + 1, Len(b)))

(***************************************************************************)
(* The record layouts the reflection walks: field name, Go kind and tag,   *)
(* in declaration order.  An RR type starts with its RR_Header, Hdr.       *)
(***************************************************************************)
F(n, k, t) == [name |-> n, kind |-> k, tag |-> t, sub |-> ""]

FS(n, t) == [name |-> n, kind |-> "struct", tag |-> "", sub |-> t]

StructFields(t) ==
    CASE t = "Header" ->
            <<F("Id", "uint16", ""), F("Bits", "uint16", ""),
              F("Qdcount", "uint16", ""), F("Ancount", "uint16", ""),
              F("Nscount", "uint16", ""), F("Arcount", "uint16", "")>>
      [] t = "Question" ->
            <<F("Name", "string", "domain-name"), F("Qtype", "uint16", ""),
              F("Qclass", "uint16", "")>>
      [] t = "RR_Header" ->
            <<F("Name", "string", "domain-name"), F("Rrtype", "uint16", ""),
              F("Class", "uint16", ""), F("Ttl", "uint32", ""),
              F("Rdlength", "uint16", "")>>
      [] t = "RR_A" -> <<FS("Hdr", "RR_Header"), F("A", "slice", "A")>>
      [] t = "RR_AAAA" -> <<FS("Hdr", "RR_Header"), F("AAAA", "slice", "AAAA")>>
      [] t = "RR_NS" -> <<FS("Hdr", "RR_Header"), F("Ns", "string", "domain-name")>>
      [] t = "RR_MX" ->
            <<FS("Hdr", "RR_Header"), F("Pref", "uint16", ""),
              F("Mx", "string", "domain-name")>>
      [] t = "RR_TXT" -> <<FS("Hdr", "RR_Header"), F("Txt", "string", "")>>
      [] t = "RR_OPT" -> <<FS("Hdr", "RR_Header"), F("Option", "slice", "OPT")>>
      [] t = "RR_DS" ->
            <<FS("Hdr", "RR_Header"), F("KeyTag", "uint16", ""),
              F("Algorithm", "uint8", ""), F("DigestType", "uint8", ""),
              F("Digest", "string", "hex")>>
      [] t = "RR_DNSKEY" ->
            <<FS("Hdr", "RR_Header"), F("Flags", "uint16", ""),
              F("Protocol", "uint8", ""), F("Algorithm", "uint8", ""),
              F("PubKey", "string", "base64")>>
      [] t = "RR_RRSIG" ->
            <<FS("Hdr", "RR_Header"), F("TypeCovered", "uint16", ""),
              F("Algorithm", "uint8", ""), F("Labels", "uint8", ""),
              F("OrigTtl", "uint32", ""), F("Expiration", "uint32", ""),
              F("Inception", "uint32", ""), F("KeyTag", "uint16", ""),
              F("SignerName", "string", "domain-name"),
              F("Signature", "string", "base64")>>

FieldNames(t) == {StructFields(t)[i].name : i \in 1..Len(StructFields(t))}

FieldOf(t, n) ==
    StructFields(t)[CHOOSE i \in 1..Len(StructFields(t)) : StructFields(t)[i].name = n]

\* the zero value of a struct type: what "var h RR_Header" and mk() start from
RECURSIVE ZeroStruct(_)
ZeroStruct(t) ==
    [n \in FieldNames(t) |->
        LET f == FieldOf(t, n)
        IN  IF f.kind = "struct" THEN ZeroStruct(f.sub)
            ELSE IF f.kind \in {"string", "slice"} THEN <<>>
            ELSE IF f.kind = "uint32" THEN <<0, 0>>
            ELSE 0]

\* rr_mk: the type codes that have a constructor, and the record type each makes
rr_mk(code) ==
    CASE code = 1 -> "RR_A"
      [] code = 2 -> "RR_NS"
      [] code = 15 -> "RR_MX"
      [] code = 16 -> "RR_TXT"
      [] code = 28 -> "RR_AAAA"
      [] code = 41 -> "RR_OPT"
      [] code = 43 -> "RR_DS"
      [] code = 46 -> "RR_RRSIG"
      [] code = 48 -> "RR_DNSKEY"
      [] OTHER -> ""

\* the type code of a record type (the inverse of rr_mk)
TypeCode(t) == CHOOSE code \in 1..48 : rr_mk(code) = t

(***************************************************************************)
(* packStructValue (msg.go 201-321)                                        *)
(***************************************************************************)
\* net.IPv4len, net.IPv6len
IPv4len == 4
IPv6len == 16

\* case "OPT": each option is code, length, data, stored without a bounds test
RECURSIVE PackOPT(_, _, _, _)
PackOPT(opts, m, o, j) ==
    IF j > Len(opts) THEN PackOk(m, o)
    ELSE LET code == opts[j].Code
             data == opts[j].Data
         IN  IF o + 3 >= Len(m) THEN PackFault(m, "msg")
             ELSE IF o + 4 + Len(data) > Len(m) THEN PackFault(m, "msg")
             ELSE PackOPT(opts,
                          WriteAt(m, o, U16(code) \o U16(Len(data)) \o data),
                          o + 4 + Len(data),
                          j + 1)

\* case "A"
PackA(fv, m, o) ==
    IF Len(fv) > IPv4len \/ o + Len(fv) > Len(m) THEN PackFail(m)
    ELSE IF Len(fv) < IPv4len THEN PackFault(m, "slice")
    ELSE PackOk(WriteAt(m, o, [k \in 1..IPv4len |-> ToByte(fv[k])]), o + IPv4len)

\* case "AAAA"
PackAAAA(fv, m, o) ==
    IF Len(fv) > IPv6len \/ o + Len(fv) > Len(m) THEN PackFail(m)
    ELSE IF Len(fv) < IPv6len THEN PackFault(m, "slice")
    ELSE PackOk(WriteAt(m, o, [k \in 1..IPv6len |-> ToByte(fv[k])]), o + IPv6len)

PackSlice(tag, fv, m, o) ==
    CASE tag = "OPT" -> PackOPT(fv, m, o, 1)
      [] tag = "A" -> PackA(fv, m, o)
      [] tag = "AAAA" -> PackAAAA(fv, m, o)
      [] tag \in {"NSEC3", "NSEC"} -> PackOk(m, o)
      [] OTHER -> PackFail(m)

\* case *reflect.UintValue
PackUint(kind, i, m, o) ==
    CASE kind = "uint8" ->
            IF o + 1 > Len(m) THEN PackFail(m)
            ELSE PackOk(WriteAt(m, o, <<ToByte(i)>>), o + 1)
      [] kind = "uint16" ->
            IF o + 2 > Len(m) THEN PackFail(m)
            ELSE PackOk(WriteAt(m, o, U16(i)), o + 2)
      [] kind = "uint32" ->
            IF o + 4 > Len(m) THEN PackFail(m)
            ELSE PackOk(WriteAt(m, o, U32(i)), o + 4)
      [] OTHER -> PackFail(m)

\* case "base64": the destination is sliced by DecodedLen before any test
PackBase64(s, m, o) ==
    Only({IF o + b64len > Len(m) THEN PackFault(m, "msg")
          ELSE IF d.err THEN PackFail(m)
          ELSE PackOk(WriteAt(m, o, d.bytes), o + b64len) :
            b64len \in {B64DecodedLen(Len(s))}, d \in {B64Decode(s)}})

\* case "hex": the digest is copied to msg[off:], and off stays where it was
PackHex(s, m, o) ==
    Only({IF h.err THEN PackFail(m)
          ELSE IF o + HexDecodedLen(Len(s)) > Len(m) THEN PackFault(m, "msg")
          ELSE PackOk(WriteAt(m, o, h.bytes), o) : h \in {HexDecode(s)}})

\* case "": counted string, one length byte
PackCounted(s, m, o) ==
    IF Len(s) > 255 \/ o + 1 + Len(s) > Len(m) THEN PackFail(m)
    ELSE PackOk(WriteAt(m, o, <<ToByte(Len(s))>> \o s), o + 1 + Len(s))

\* case *reflect.StringValue
PackString(tag, s, m, o) ==
    CASE tag = "base64" -> PackBase64(s, m, o)
      [] tag = "domain-name" ->
            Only({IF r.ok THEN r ELSE PackFail(r.msg) : r \in {packDomainName(s, m, o)}})
      [] tag = "hex" -> PackHex(s, m, o)
      [] tag = "" -> PackCounted(s, m, o)
      [] OTHER -> PackFail(m)

\* one field that is no struct: ok = FALSE is "return len(msg), false"
PackField(f, fv, m, o) ==
    CASE f.kind = "slice" -> PackSlice(f.tag, fv, m, o)
      [] f.kind \in {"uint8", "uint16", "uint32"} -> PackUint(f.kind, fv, m, o)
      [] f.kind = "string" -> PackString(f.tag, fv, m, o)
      [] OTHER -> PackFail(m)

\* packStructValue(val, msg, off), from field i on
RECURSIVE PSVFrom(_, _, _, _, _)
\* field f, a nested struct or not
PSVField(f, fv, m, o) ==
    IF f.kind = "struct" THEN PSVFrom(f.sub, fv, m, o, 1) ELSE PackField(f, fv, m, o)

PSVFrom(t, val, m, o, i) ==
    IF i > Len(StructFields(t)) THEN PackOk(m, o)
    ELSE Only({IF r.fault # "" THEN r
               \* "off, ok = packStructValue(fv, msg, off)": ok is not looked at
               ELSE IF StructFields(t)[i].kind # "struct" /\ ~r.ok THEN r
               ELSE PSVFrom(t, val, r.msg, r.off, i + 1) :
                 r \in {PSVField(StructFields(t)[i], val[StructFields(t)[i].name], m, o)}})

packStructValue(t, val, m, o) == PSVFrom(t, val, m, o, 1)

\* packStruct(any, msg, off)
packStruct(t, val, m, o) == packStructValue(t, val, m, o)

(***************************************************************************)
(* unpackStructValue (msg.go 334-467)                                      *)
(***************************************************************************)
\* an unpacker's result for one field or one struct: the value, off1, ok
UnpackOk(v, o) == [val |-> v, off |-> o, ok |-> TRUE, fault |-> ""]

UnpackFail(v, m) == [val |-> v, off |-> Len(m), ok |-> FALSE, fault |-> ""]

UnpackFault(v, m, why) == [val |-> v, off |-> Len(m), ok |-> FALSE, fault |-> why]

\* net.IPv4(a, b, c, d): the 16-byte form of an IPv4 address
IPv4(a, b, c, d) == <<0, 0, 0, 0, 0, 0, 0, 0, 0, 0, 255, 255, a, b, c, d>>

\* unpackUint16 (msg.go 470-474): no bounds test of its own
unpackUint16(m, o) == [v |-> m[o + 1] * 256 + m[o + 2], off |-> o + 2]

\* case *reflect.SliceValue
UnpackSlice(tag, fv, m, o) ==
    CASE tag = "A" ->
            IF o + IPv4len > Len(m) THEN UnpackFail(fv, m)
            ELSE UnpackOk(IPv4(m[o + 1], m[o + 2], m[o + 3], m[o + 4]), o + IPv4len)
      [] tag = "AAAA" ->
            IF o + IPv6len > Len(m) THEN UnpackFail(fv, m)
            ELSE UnpackOk(Slice(m, o, o + IPv6len), o + IPv6len)
      [] tag = "OPT" -> UnpackOk(fv, o)
      [] OTHER -> UnpackFail(fv, m)

\* case *reflect.UintValue
UnpackUint(kind, fv, m, o) ==
    CASE kind = "uint8" ->
            IF o + 1 > Len(m) THEN UnpackFail(fv, m)
            ELSE UnpackOk(m[o + 1], o + 1)
      [] kind = "uint16" ->
            IF o + 2 > Len(m) THEN UnpackFail(fv, m)
            ELSE Only({UnpackOk(r.v, r.off) : r \in {unpackUint16(m, o)}})
      [] kind = "uint32" ->
            IF o + 4 > Len(m) THEN UnpackFail(fv, m)
            ELSE UnpackOk(<<m[o + 1] * 256 + m[o + 2], m[o + 3] * 256 + m[o + 4]>>, o + 4)
      [] OTHER -> UnpackFail(fv, m)

\* the payload bytes the fields before a hex field have used
HexConsumed(t) == IF t = "RR_DS" THEN 4 ELSE 0

\* the payload bytes the fields before a base64 field have used
B64Consumed(t, val) ==
    CASE t = "RR_DNSKEY" -> 4
      [] t = "RR_RRSIG" -> 18 + Len(val.SignerName) + 1
      [] OTHER -> 0

\* msg[off : off+n]: in bounds only for 0 <= off <= off+n <= len(msg); the
\* buffer is one whose capacity is its length, as make([]byte, n) returns
SliceInBounds(m, o, n) == 0 <= o /\ n >= 0 /\ o + n <= Len(m)

\* case "hex": the rest of the RR, rdlength - consumed bytes, with no bounds test
UnpackHex(t, val, fv, m, o) ==
    LET n == val.Hdr.Rdlength - HexConsumed(t)
    IN  IF ~SliceInBounds(m, o, n) THEN UnpackFault(fv, m, "msg")
        ELSE UnpackOk(HexEncode(Slice(m, o, o + n)), o + n)

\* case "base64": the rest of the RR, rdlength - consumed bytes, with no bounds test
UnpackBase64(t, val, fv, m, o) ==
    LET n == val.Hdr.Rdlength - B64Consumed(t, val)
    IN  IF ~SliceInBounds(m, o, n) THEN UnpackFault(fv, m, "msg")
        ELSE UnpackOk(B64Encode(Slice(m, o, o + n)), o + n)

\* case "": counted string
UnpackCounted(fv, m, o) ==
    IF o >= Len(m) \/ o + 1 + m[o + 1] > Len(m) THEN UnpackFail(fv, m)
    ELSE UnpackOk(Slice(m, o + 1, o + 1 + m[o + 1]), o + 1 + m[o + 1])

\* case *reflect.StringValue
UnpackString(t, val, f, fv, m, o) ==
    CASE f.tag = "hex" -> UnpackHex(t, val, fv, m, o)
      [] f.tag = "base64" -> UnpackBase64(t, val, fv, m, o)
      [] f.tag = "domain-name" ->
            Only({IF r.ok THEN UnpackOk(r.s, r.off) ELSE UnpackFail(fv, m) :
                    r \in {unpackDomainName(m, o)}})
      [] f.tag = "" -> UnpackCounted(fv, m, o)
      [] OTHER -> UnpackFail(fv, m)

\* one field that is no struct: ok = FALSE is "return len(msg), false"
UnpackField(t, val, f, m, o) ==
    CASE f.kind = "slice" -> UnpackSlice(f.tag, val[f.name], m, o)
      [] f.kind \in {"uint8", "uint16", "uint32"} -> UnpackUint(f.kind, val[f.name], m, o)
      [] f.kind = "string" -> UnpackString(t, val, f, val[f.name], m, o)
      [] OTHER -> UnpackFail(val[f.name], m)

\* unpackStructValue(val, msg, off), from field i on; val is filled in place
RECURSIVE USVFrom(_, _, _, _, _)
\* field f, a nested struct or not
USVField(t, val, f, m, o) ==
    IF f.kind = "struct" THEN USVFrom(f.sub, val[f.name], m, o, 1)
    ELSE UnpackField(t, val, f, m, o)

USVFrom(t, val, m, o, i) ==
    IF i > Len(StructFields(t)) THEN UnpackOk(val, o)
    ELSE Only({IF r.fault # "" THEN UnpackFault(val, m, r.fault)
               \* "off, ok = unpackStructValue(fv, msg, off)": ok is not looked at
               ELSE IF StructFields(t)[i].kind # "struct" /\ ~r.ok THEN UnpackFail(val, m)
               ELSE USVFrom(t, [val EXCEPT ![StructFields(t)[i].name] = r.val], m, r.off,
                            i + 1) :
                 r \in {USVField(t, val, StructFields(t)[i], m, o)}})

unpackStructValue(t, val, m, o) == USVFrom(t, val, m, o, 1)

\* unpackStruct(any, msg, off)
unpackStruct(t, val, m, o) == unpackStructValue(t, val, m, o)

(***************************************************************************)
(* packRR and unpackRR (msg.go 482-535).  An RR is a pair: the name of its *)
(* Go type, t, and the struct value, v; a bare *RR_Header is an RR too.    *)
(***************************************************************************)
NilRR == [t |-> "nil", v |-> <<>>]

\* rr.Header()
HeaderOf(rr) == IF rr.t = "RR_Header" THEN rr.v ELSE rr.v.Hdr

\* rr.Header().Rdlength = n
WithRdlength(rr, n) ==
    IF rr.t = "RR_Header" THEN [rr EXCEPT !.v.Rdlength = n]
    ELSE [rr EXCEPT !.v.Hdr.Rdlength = n]

\* uint16(x)
ToUint16(x) == x % 65536

\* packRR(rr, msg, off) = (off2, ok); rr comes back with the Rdlength packRR stored in it
RRFail(rr, m, why) == [msg |-> m, off |-> Len(m), ok |-> FALSE, fault |-> why, rr |-> rr]

\* "pack a third time; redo header with correct data length": rr2 is rr with
\* Rdlength = uint16(off2 - off1); the result of this third packStruct is dropped
PackRRThird(rr2, m, o, off2) ==
    Only({[msg |-> r3.msg, off |-> off2, ok |-> TRUE, fault |-> r3.fault, rr |-> rr2] :
            r3 \in {packStruct("RR_Header", HeaderOf(rr2), m, o)}})

\* "off2, ok = packStruct(rr, msg, off)", after the header alone ended at off1
PackRRSecond(rr, m, o, off1) ==
    Only({IF r2.fault # "" THEN RRFail(rr, r2.msg, r2.fault)
          ELSE IF ~r2.ok THEN RRFail(rr, r2.msg, "")
          ELSE PackRRThird(WithRdlength(rr, ToUint16(r2.off - off1)), r2.msg, o, r2.off) :
            r2 \in {packStruct(rr.t, rr.v, m, o)}})

packRR(rr, m, o) ==
    IF rr.t = "nil" THEN RRFail(rr, m, "")
    ELSE Only({IF r1.fault # "" THEN RRFail(rr, r1.msg, r1.fault)
               \* "off1, ok = packStruct(rr.Header(), msg, off)": this ok is overwritten
               ELSE PackRRSecond(rr, r1.msg, o, r1.off) :
                 r1 \in {packStruct("RR_Header", HeaderOf(rr), m, o)}})

\* a variant that trusts the decoded record whatever payload length the header declared
UnpackRRResultUnchecked(h, end, rrt, r) ==
    [rr |-> [t |-> rrt, v |-> r.val], off |-> r.off, ok |-> r.ok, fault |-> ""]

\* the end of unpackRR: "if off != end { return &h, end, true }; return rr, off, ok"
UnpackRRResult(h, end, rrt, r) ==
    IF r.off # end
    THEN [rr |-> [t |-> "RR_Header", v |-> h], off |-> end, ok |-> TRUE, fault |-> ""]
    ELSE [rr |-> [t |-> rrt, v |-> r.val], off |-> r.off, ok |-> r.ok, fault |-> ""]

\* unpackRR(msg, off) = (rr, off1, ok)
\* "mk, known := rr_mk[int(h.Rrtype)]" and what follows, for the header h that
\* ended at offset hend
UnpackRRTyped(h, hend, m, o) ==
    IF rr_mk(h.Rrtype) = ""
    THEN [rr |-> [t |-> "RR_Header", v |-> h], off |-> hend + h.Rdlength,
          ok |-> TRUE, fault |-> ""]
    ELSE Only({IF r.fault # ""
               THEN [rr |-> NilRR, off |-> Len(m), ok |-> FALSE, fault |-> r.fault]
               ELSE UnpackRRResult(h, hend + h.Rdlength, rr_mk(h.Rrtype), r) :
                 r \in {unpackStruct(rr_mk(h.Rrtype), ZeroStruct(rr_mk(h.Rrtype)), m, o)}})

unpackRR(m, o) ==
    Only({IF rh.fault # ""
          THEN [rr |-> NilRR, off |-> Len(m), ok |-> FALSE, fault |-> rh.fault]
          ELSE IF ~rh.ok THEN [rr |-> NilRR, off |-> Len(m), ok |-> FALSE, fault |-> ""]
          ELSE UnpackRRTyped(rh.val, rh.off, m, o) :
            rh \in {unpackStruct("RR_Header", ZeroStruct("RR_Header"), m, o)}})

(***************************************************************************)
(* Msg.Pack and Msg.Unpack (msg.go 607-717)                                *)
(***************************************************************************)
DefaultMsgSize == 4096

\* the bit of each flag in the header's Bits word (_QR, _AA, ... of the package)
FlagBit(flag) ==
    CASE flag = "Response" -> 32768
      [] flag = "Authoritative" -> 1024
      [] flag = "Truncated" -> 512
      [] flag = "RecursionDesired" -> 256
      [] flag = "RecursionAvailable" -> 128
      [] flag = "Zero" -> 64
      [] flag = "AuthenticatedData" -> 32
      [] flag = "CheckingDisabled" -> 16

Flags == {"Response", "Authoritative", "Truncated", "RecursionDesired",
          "RecursionAvailable", "Zero", "AuthenticatedData", "CheckingDisabled"}

\* x | y and x & y on 16-bit words
RECURSIVE Or16(_, _, _)
Or16(x, y, k) ==
    IF k = 0 THEN 0
    ELSE (IF x % 2 = 1 \/ y % 2 = 1 THEN 1 ELSE 0) + 2 * Or16(x \div 2, y \div 2, k - 1)

RECURSIVE And16(_, _, _)
And16(x, y, k) ==
    IF k = 0 THEN 0
    ELSE (IF x % 2 = 1 /\ y % 2 = 1 THEN 1 ELSE 0) + 2 * And16(x \div 2, y \div 2, k - 1)

BitOr(x, y) == Or16(x, y, 16)

BitAnd(x, y) == And16(x, y, 16)

\* dh.Bits |= bit for every flag of todo that is set in d
RECURSIVE OrFlags(_, _, _)
OrFlags(d, bits, todo) ==
    IF todo = {} THEN bits
    ELSE LET fl == CHOOSE x \in todo : TRUE
         IN  OrFlags(d, IF d[fl] THEN BitOr(bits, FlagBit(fl)) ELSE bits, todo \ {fl})

\* a variant that shifts the opcode one bit short
PackBitsShort(d) ==
    OrFlags(d, BitOr(ToUint16(ToUint16(d.Opcode) * 1024), ToUint16(d.Rcode)), Flags)

\* dh.Bits as Pack builds it: uint16(Opcode)<<11 | uint16(Rcode), then the flags
PackBits(d) ==
    OrFlags(d, BitOr(ToUint16(ToUint16(d.Opcode) * 2048), ToUint16(d.Rcode)), Flags)

\* the wire-like Header Pack fills from the Msg
PackHeader(d) ==
    [Id |-> d.Id, Bits |-> PackBits(d),
     Qdcount |-> ToUint16(Len(d.Question)), Ancount |-> ToUint16(Len(d.Answer)),
     Nscount |-> ToUint16(Len(d.Ns)), Arcount |-> ToUint16(Len(d.Extra))]

\* the Msg's record sections, in the order Pack and Unpack walk them
RRSections == <<"Answer", "Ns", "Extra">>

\* "for i := 0; i < len(question); i++ { off, ok = packStruct(&question[i], msg, off) }"
\* acc is the buffer, off and ok so far, and the Msg
RECURSIVE PackQuestions(_, _)
PackQuestions(acc, i) ==
    IF i > Len(acc.dns.Question) \/ acc.fault # "" THEN acc
    ELSE Only({PackQuestions([acc EXCEPT !.msg = r.msg, !.off = r.off, !.ok = r.ok,
                                         !.fault = r.fault],
                             i + 1) :
                 r \in {packStruct("Question", acc.dns.Question[i], acc.msg, acc.off)}})

\* "for i := 0; i < len(answer); i++ { off, ok = packRR(answer[i], msg, off) }",
\* for the section sec; packRR leaves the Rdlength it computed in the record
RECURSIVE PackRRs(_, _, _)
PackRRs(sec, acc, i) ==
    IF i > Len(acc.dns[sec]) \/ acc.fault # "" THEN acc
    ELSE Only({PackRRs(sec,
                       [acc EXCEPT !.msg = r.msg, !.off = r.off, !.ok = r.ok,
                                   !.fault = r.fault, !.dns[sec][i] = r.rr],
                       i + 1) :
                 r \in {packRR(acc.dns[sec][i], acc.msg, acc.off)}})

\* the three loops over answer, ns and extra
RECURSIVE PackSections(_, _)
PackSections(acc, k) ==
    IF k > Len(RRSections) THEN acc
    ELSE PackSections(PackRRs(RRSections[k], acc, 1), k + 1)

\* "off, ok = packStruct(&dh, msg, off)" on the fresh buffer
PackStart(d) ==
    Only({[msg |-> h.msg, off |-> h.off, ok |-> h.ok, fault |-> h.fault, dns |-> d] :
            h \in {packStruct("Header", PackHeader(d), Rep(0, DefaultMsgSize), 0)}})

\* dns.Pack() = (msg, ok); dns comes back with the Rdlength packRR stored in its records
Pack(d) ==
    Only({IF e.fault # "" THEN [msg |-> <<>>, ok |-> FALSE, fault |-> e.fault, dns |-> e.dns]
          ELSE IF ~e.ok THEN [msg |-> <<>>, ok |-> FALSE, fault |-> "", dns |-> e.dns]
          ELSE IF e.off > Len(e.msg)
          THEN [msg |-> <<>>, ok |-> FALSE, fault |-> "msg", dns |-> e.dns]
          ELSE [msg |-> Slice(e.msg, 0, e.off), ok |-> TRUE, fault |-> "", dns |-> e.dns] :
            e \in {PackSections(PackQuestions(PackStart(d), 1), 1)}})

\* new(Msg): the receiver Unpack fills
NewMsg ==
    [Id |-> 0, Response |-> FALSE, Opcode |-> 0, Authoritative |-> FALSE,
     Truncated |-> FALSE, RecursionDesired |-> FALSE, RecursionAvailable |-> FALSE,
     Zero |-> FALSE, AuthenticatedData |-> FALSE, CheckingDisabled |-> FALSE,
     Rcode |-> 0, Question |-> <<>>, Answer |-> <<>>, Ns |-> <<>>, Extra |-> <<>>]

\* "for i := 0; i < len(dns.Question); i++ { off, ok = unpackStruct(&dns.Question[i], msg, off) }"
\* acc is off and ok so far, and the Msg; n is the declared count
RECURSIVE UnpackQuestions(_, _, _, _)
UnpackQuestions(m, acc, i, n) ==
    IF i > n \/ acc.fault # "" THEN acc
    ELSE Only({UnpackQuestions(m,
                               [acc EXCEPT !.off = r.off, !.ok = r.ok, !.fault = r.fault,
                                           !.dns.Question = Append(@, r.val)],
                               i + 1, n) :
                 r \in {unpackStruct("Question", ZeroStruct("Question"), m, acc.off)}})

\* "for i := 0; i < len(dns.Answer); i++ { dns.Answer[i], off, ok = unpackRR(msg, off) }",
\* for the section sec
RECURSIVE UnpackRRs(_, _, _, _, _)
UnpackRRs(m, sec, acc, i, n) ==
    IF i > n \/ acc.fault # "" THEN acc
    ELSE Only({UnpackRRs(m, sec,
                         [acc EXCEPT !.off = r.off, !.ok = r.ok, !.fault = r.fault,
                                     !.dns[sec] = Append(@, r.rr)],
                         i + 1, n) :
                 r \in {unpackRR(m, acc.off)}})

\* the three loops over Answer, Ns and Extra; counts are Ancount, Nscount, Arcount
RECURSIVE UnpackSections(_, _, _, _)
UnpackSections(m, acc, counts, k) ==
    IF k > Len(RRSections) THEN acc
    ELSE UnpackSections(m, UnpackRRs(m, RRSections[k], acc, 1, counts[k]), counts, k + 1)

\* the header fields Unpack copies into the Msg (msg.go 683-690)
UnpackHeaderFields(d, dh) ==
    [d EXCEPT !.Id = dh.Id,
              !.Response = BitAnd(dh.Bits, FlagBit("Response")) # 0,
              !.Opcode = (dh.Bits \div 2048) % 16,
              !.Authoritative = BitAnd(dh.Bits, FlagBit("Authoritative")) # 0,
              !.Truncated = BitAnd(dh.Bits, FlagBit("Truncated")) # 0,
              !.RecursionDesired = BitAnd(dh.Bits, FlagBit("RecursionDesired")) # 0,
              !.RecursionAvailable = BitAnd(dh.Bits, FlagBit("RecursionAvailable")) # 0,
              !.Rcode = dh.Bits % 16,
              !.Question = <<>>, !.Answer = <<>>, !.Ns = <<>>, !.Extra = <<>>]

\* Unpack after its header: the questions, then the three record sections
UnpackBody(d, m, rh) ==
    UnpackSections(m,
                   UnpackQuestions(m,
                                   [off |-> rh.off, ok |-> rh.ok, fault |-> "",
                                    dns |-> UnpackHeaderFields(d, rh.val)],
                                   1, rh.val.Qdcount),
                   <<rh.val.Ancount, rh.val.Nscount, rh.val.Arcount>>,
                   1)

\* dns.Unpack(msg) on the receiver d: the Msg it leaves, the bool it returns, and
\* the offset it stopped at
UnpackInto(d, m) ==
    Only({IF ~rh.ok THEN [dns |-> d, ok |-> FALSE, fault |-> "", off |-> Len(m)]
          ELSE Only({IF e.fault # ""
                     THEN [dns |-> e.dns, ok |-> FALSE, fault |-> e.fault, off |-> Len(m)]
                     ELSE [dns |-> e.dns, ok |-> e.ok, fault |-> "", off |-> e.off] :
                        e \in {UnpackBody(d, m, rh)}}) :
            rh \in {unpackStruct("Header", ZeroStruct("Header"), m, 0)}})

\* Unpack on a fresh Msg
Unpack(m) == UnpackInto(NewMsg, m)

(***************************************************************************)
(* What the variables hold while the operation they belong to has not run  *)
(***************************************************************************)
NotRun == [run |-> FALSE]

NoCall == [op |-> "none"]

IdleCalls == /\ ok = TRUE /\ last = NoCall /\ failed = FALSE /\ calls = 0

IdleName == /\ nst = UDNInit(0) /\ steps = 0

IdleMsg == /\ dns = NewMsg /\ wire = NotRun /\ back = NotRun

callVars == <<ok, last, failed, calls>>

nameVars == <<nst, steps>>

msgVars == <<dns, wire, back>>

(***************************************************************************)
(* SpecName: unpackDomainName run one loop iteration at a time on every    *)
(* buffer of at most MaxNameBuf bytes drawn from NameBytes, from every     *)
(* start offset inside the buffer or at its end.                           *)
(***************************************************************************)
MaxNameBuf == 4

\* end of name, label lengths 1 and 2, the reserved 0x40, a letter, the pointer mark 0xC0
NameBytes == {0, 1, 2, 64, 97, 192}

NameBufs == UNION {[1..n -> NameBytes] : n \in 0..MaxNameBuf}

InitName ==
    /\ msg \in NameBufs
    /\ off \in 0..Len(msg)
    /\ nst = UDNInit(off)
    /\ steps = 0
    /\ IdleCalls
    /\ IdleMsg

\* one iteration of the loop, in the branch named c
NameStep(c) ==
    /\ nst.pc = "loop"
    /\ UDNCase(msg, nst) = c
    /\ nst' = UDNStep(msg, nst)
    /\ steps' = steps + 1
    /\ UNCHANGED <<msg, off, callVars, msgVars>>

NameTruncated == NameStep("truncated")

NameEnd == NameStep("end")

NameLiteral == NameStep("literal")

NamePointer == NameStep("pointer")

NameReserved == NameStep("reserved")

NextName ==
    \/ NameTruncated
    \/ NameEnd
    \/ NameLiteral
    \/ NamePointer
    \/ NameReserved

\* the loop is sequential code: while it can take an iteration it takes one
SpecName == InitName /\ [][NextName]_vars /\ WF_vars(NextName)

\* C3: pointer-loop safety.  unpackDomainName terminates on every buffer and
\* start offset: it runs at most (MaxPointers + 1) * (len(msg) + 2) loop
\* iterations and then returns.  It follows at most 10 compression pointers;
\* the 11th it meets makes it return s = "", off1 = len(msg), ok = false, so
\* the two pointers C0 02 C0 00 that point at each other are rejected.
C3_PointerLoopSafety ==
    /\ [](/\ nst.ptr <= MaxPointers + 1
          /\ steps <= (MaxPointers + 1) * (Len(msg) + 2)
          /\ (nst.ptr = MaxPointers + 1 =>
                 /\ nst.pc = "fail" /\ nst.s = <<>> /\ nst.off1 = Len(msg))
          /\ (nst.pc = "fail" => nst.s = <<>> /\ nst.off1 = Len(msg))
          /\ (msg = <<192, 2, 192, 0>> /\ off = 0 => nst.pc # "ok"))
    /\ <>(nst.pc # "loop")

\* the cycle C0 02 C0 00, decoded from offset 0, has been rejected at its 11th pointer
C3_Witness ==
    /\ msg = <<192, 2, 192, 0>>
    /\ off = 0
    /\ nst.pc = "fail"
    /\ nst.ptr = MaxPointers + 1
    /\ steps = MaxPointers + 1

(***************************************************************************)
(* Sample names, questions and records the specifications draw from        *)
(***************************************************************************)
\* ".", "a.", "b.", "example.com."
RootName == <<Dot>>

NameA == <<97, Dot>>

NameB == <<98, Dot>>

ExampleCom == <<101, 120, 97, 109, 112, 108, 101, Dot, 99, 111, 109, Dot>>

\* an RR_Header as a caller fills it: Rdlength is left to packRR
Hdr(name, t) ==
    [Name |-> name, Rrtype |-> TypeCode(t), Class |-> 1, Ttl |-> <<0, 60>>, Rdlength |-> 0]

MkRR(name, t, payload) == [t |-> t, v |-> [Hdr |-> Hdr(name, t)] @@ payload]

\* "ab" and "AB": one digest byte in hex; "YWJj" and "YQ==": base64 of "abc" and of "a"
HexLower == <<97, 98>>

HexUpper == <<65, 66>>

B64abc == <<89, 87, 74, 106>>

B64a == <<89, 81, 61, 61>>

RR_A(name) == MkRR(name, "RR_A", [A |-> <<192, 0, 2, 1>>])

RR_AAAA(name) == MkRR(name, "RR_AAAA", [AAAA |-> [k \in 1..IPv6len |-> k]])

RR_NS(name) == MkRR(name, "RR_NS", [Ns |-> NameB])

RR_MX(name) == MkRR(name, "RR_MX", [Pref |-> 10, Mx |-> NameB])

RR_TXT(name, txt) == MkRR(name, "RR_TXT", [Txt |-> txt])

RR_OPT(opts) == MkRR(RootName, "RR_OPT", [Option |-> opts])

RR_DS(name, digest) ==
    MkRR(name, "RR_DS",
         [KeyTag |-> 4660, Algorithm |-> 8, DigestType |-> 1, Digest |-> digest])

RR_DNSKEY(name, key) ==
    MkRR(name, "RR_DNSKEY",
         [Flags |-> 256, Protocol |-> 3, Algorithm |-> 8, PubKey |-> key])

RR_RRSIG(name, sig) ==
    MkRR(name, "RR_RRSIG",
         [TypeCovered |-> 1, Algorithm |-> 8, Labels |-> 1, OrigTtl |-> <<0, 60>>,
          Expiration |-> <<1, 4464>>, Inception |-> <<1, 464>>, KeyTag |-> 4660,
          SignerName |-> NameB, Signature |-> sig])

\* one EDNS option: code 3, data "x"
OneOption == <<[Code |-> 3, Data |-> <<120>>]>>

\* the records of the samples, in a fixed order
SampleRRs ==
    <<RR_A(NameA), RR_NS(NameA), RR_TXT(NameA, <<104, 105>>), RR_MX(RootName),
      RR_AAAA(NameA), RR_DS(NameA, HexLower), RR_DNSKEY(NameA, B64abc),
      RR_RRSIG(NameA, B64abc), RR_OPT(<<>>), RR_OPT(OneOption),
      RR_DS(NameA, HexUpper), RR_DNSKEY(NameA, B64a), RR_A(RootName)>>

Q(name, t) == [Name |-> name, Qtype |-> t, Qclass |-> 1]

SampleQuestions == <<Q(ExampleCom, 1), Q(RootName, 2), Q(NameA, 255)>>

(***************************************************************************)
(* Spec: a caller builds a Msg, packs it, and unpacks the packed bytes     *)
(* into a fresh Msg.                                                       *)
(***************************************************************************)
\* longest section of the sampled messages
MaxSection == 2

\* how far before the end of the 4096-byte buffer the last record of a full message starts
MaxGap == 20

MsgHdrOf(id, fs, opcode, rcode) ==
    [NewMsg EXCEPT !.Id = id, !.Opcode = opcode, !.Rcode = rcode,
                   !.Response = "Response" \in fs,
                   !.Authoritative = "Authoritative" \in fs,
                   !.Truncated = "Truncated" \in fs,
                   !.RecursionDesired = "RecursionDesired" \in fs,
                   !.RecursionAvailable = "RecursionAvailable" \in fs,
                   !.Zero = "Zero" \in fs,
                   !.AuthenticatedData = "AuthenticatedData" \in fs,
                   !.CheckingDisabled = "CheckingDisabled" \in fs]

\* every combination of the eight flags, and every opcode and rcode, around one question
HeaderMsgs ==
    {[MsgHdrOf(4660, fs, oc, oc) EXCEPT !.Question = <<SampleQuestions[1]>>] :
        fs \in SUBSET Flags, oc \in {0, 15}}
    \cup
    {[MsgHdrOf(id, fs, oc, rc) EXCEPT !.Question = <<SampleQuestions[3]>>] :
        id \in {0, 65535}, fs \in {{}, {"RecursionDesired"}}, oc \in 0..15, rc \in 0..15}

\* the runs of at most MaxSection consecutive samples
Runs(samples) ==
    {SubSeq(samples \o samples, r, r + k - 1) : r \in 1..Len(samples), k \in 0..MaxSection}

\* messages with records in their sections; the flags here are ones Unpack restores
SectionMsgs ==
    {[MsgHdrOf(4660, {"Response", "RecursionDesired"}, 0, 3) EXCEPT
         !.Question = qs, !.Answer = an, !.Ns = SubSeq(an, 1, IF nsn <= Len(an) THEN nsn ELSE 0), !.Extra = ex] :
        qs \in {<<>>, <<SampleQuestions[1]>>, <<SampleQuestions[2], SampleQuestions[3]>>},
        an \in Runs(SampleRRs),
        nsn \in {0, 1},
        ex \in {<<>>, <<RR_OPT(<<>>)>>, <<NilRR>>}}

\* a TXT record of n bytes of text: a 3-byte name, 10 more header bytes, a
\* length byte and the text, 14 + n bytes on the wire
Filler(n) == RR_TXT(NameA, Rep(120, n))

FillerWire(n) == 14 + n

\* the full-size fillers that fit after the header
FullFillers == (DefaultMsgSize - 12) \div FillerWire(255)

\* bytes left after the header and the full-size fillers
LeftOver == DefaultMsgSize - 12 - FullFillers * FillerWire(255)

\* messages whose last record starts gap bytes before the end of the buffer
FullMsgs ==
    {[MsgHdrOf(1, {}, 0, 0) EXCEPT
         !.Answer = [i \in 1..FullFillers |-> Filler(255)]
                    \o <<Filler(LeftOver - gap - FillerWire(0))>>,
         !.Extra = <<SampleRRs[k]>>] :
        gap \in 0..MaxGap, k \in 1..Len(SampleRRs)}

Messages == HeaderMsgs \cup SectionMsgs \cup FullMsgs

Init ==
    /\ dns \in Messages
    /\ wire = NotRun
    /\ back = NotRun
    /\ msg = <<>>
    /\ off = 0
    /\ IdleCalls
    /\ IdleName

\* msg, ok := dns.Pack()
DoPack ==
    /\ ~wire.run
    /\ \E p \in {Pack(dns)} :
         /\ wire' = [run |-> TRUE, msg |-> p.msg, ok |-> p.ok, fault |-> p.fault,
                     given |-> dns]
         /\ dns' = p.dns
    /\ UNCHANGED <<back, msg, off, callVars, nameVars>>

\* ok := new(Msg).Unpack(msg), on the bytes Pack returned
DoUnpack ==
    /\ wire.run
    /\ wire.ok
    /\ ~back.run
    /\ \E u \in {Unpack(wire.msg)} :
         back' = [run |-> TRUE, dns |-> u.dns, ok |-> u.ok, fault |-> u.fault]
    /\ UNCHANGED <<dns, wire, msg, off, callVars, nameVars>>

Next ==
    \/ DoPack
    \/ DoUnpack

Spec == Init /\ [][Next]_vars

\* SpecRound: the same caller, on the messages that fit the buffer with room to spare
InitRound ==
    /\ dns \in HeaderMsgs \cup SectionMsgs
    /\ wire = NotRun
    /\ back = NotRun
    /\ msg = <<>>
    /\ off = 0
    /\ IdleCalls
    /\ IdleName

SpecRound == InitRound /\ [][Next]_vars

(***************************************************************************)
(* Claims about Pack and Unpack of whole messages, checked under Spec      *)
(***************************************************************************)
\* an IP address in its 16-byte form, as net.IP.Equal compares addresses
IPTo16(a) == IF Len(a) = IPv4len THEN IPv4(a[1], a[2], a[3], a[4]) ELSE a

\* two records are equal: same type, equal fields, addresses compared as addresses
RREqual(x, y) ==
    /\ x.t = y.t
    /\ x.t # "nil" =>
         \A n \in DOMAIN x.v :
            IF n = "A" THEN IPTo16(x.v[n]) = IPTo16(y.v[n]) ELSE x.v[n] = y.v[n]

SectionEqual(xs, ys) ==
    /\ Len(xs) = Len(ys)
    /\ \A i \in 1..Len(xs) : RREqual(xs[i], ys[i])

\* equal id, flags, opcode, rcode and contents of the four sections
MsgEqual(x, y) ==
    /\ x.Id = y.Id
    /\ \A fl \in Flags : x[fl] = y[fl]
    /\ x.Opcode = y.Opcode
    /\ x.Rcode = y.Rcode
    /\ x.Question = y.Question
    /\ SectionEqual(x.Answer, y.Answer)
    /\ SectionEqual(x.Ns, y.Ns)
    /\ SectionEqual(x.Extra, y.Extra)

\* C1: round-trip identity.  For every message on which Pack succeeds,
\* Unpack of the packed bytes returns true and yields a message with the same
\* id, flags, opcode, rcode and section contents (the records as Pack left them).
C1_RoundTripIdentity ==
    back.run => /\ back.ok
                /\ back.fault = ""
                /\ MsgEqual(back.dns, dns)

\* the number of bytes a value takes on the wire, by the layout of its type
RECURSIVE SumLen(_, _)
SumLen(lens, i) == IF i > Len(lens) THEN 0 ELSE lens[i] + SumLen(lens, i + 1)

NameWireLen(s) == IF Canonical(s) = <<Dot>> THEN 1 ELSE Len(Canonical(s)) + 1

RECURSIVE StructWireLen(_, _)
FieldWireLen(f, v) ==
    CASE f.kind = "struct" -> StructWireLen(f.sub, v)
      [] f.kind = "uint8" -> 1
      [] f.kind = "uint16" -> 2
      [] f.kind = "uint32" -> 4
      [] f.kind = "slice" /\ f.tag = "A" -> IPv4len
      [] f.kind = "slice" /\ f.tag = "AAAA" -> IPv6len
      [] f.kind = "slice" /\ f.tag = "OPT" ->
            SumLen([j \in 1..Len(v) |-> 4 + Len(v[j].Data)], 1)
      [] f.kind = "string" /\ f.tag = "domain-name" -> NameWireLen(v)
      [] f.kind = "string" /\ f.tag = "hex" -> Len(v) \div 2
      [] f.kind = "string" /\ f.tag = "base64" -> Len(B64Decode(v).bytes)
      [] f.kind = "string" /\ f.tag = "" -> 1 + Len(v)

StructWireLen(t, val) ==
    SumLen([i \in 1..Len(StructFields(t)) |->
               FieldWireLen(StructFields(t)[i], val[StructFields(t)[i].name])], 1)

RRWireLen(rr) == IF rr.t = "nil" THEN 0 ELSE StructWireLen(rr.t, rr.v)

MsgWireLen(d) ==
    12 + SumLen([i \in 1..Len(d.Question) |-> StructWireLen("Question", d.Question[i])], 1)
       + SumLen([i \in 1..Len(d.Answer) |-> RRWireLen(d.Answer[i])], 1)
       + SumLen([i \in 1..Len(d.Ns) |-> RRWireLen(d.Ns[i])], 1)
       + SumLen([i \in 1..Len(d.Extra) |-> RRWireLen(d.Extra[i])], 1)

\* C5: Pack overflow is reported as failure.  No packer stores to or slices
\* the buffer outside it; a message whose encoding is longer than the 4096-byte
\* buffer makes Pack return (nil, false); and when Pack returns ok = true the
\* result is at most 4096 bytes long.
C5_PackOverflowFails ==
    wire.run =>
        /\ wire.fault = ""
        /\ (MsgWireLen(wire.given) > DefaultMsgSize => ~wire.ok /\ wire.msg = <<>>)
        /\ (wire.ok => Len(wire.msg) <= DefaultMsgSize)

\* the flag word of section 4.5: (opcode << 11) | rcode | the bits of the set flags
ExpectedBits(d) ==
    d.Opcode * 2048 + d.Rcode
    + (IF d.Response THEN 32768 ELSE 0) + (IF d.Authoritative THEN 1024 ELSE 0)
    + (IF d.Truncated THEN 512 ELSE 0) + (IF d.RecursionDesired THEN 256 ELSE 0)
    + (IF d.RecursionAvailable THEN 128 ELSE 0) + (IF d.Zero THEN 64 ELSE 0)
    + (IF d.AuthenticatedData THEN 32 ELSE 0) + (IF d.CheckingDisabled THEN 16 ELSE 0)

\* C7: header wire encoding.  When Pack succeeds on a message with opcode and
\* rcode in 0..15, the first 12 bytes are, big-endian, the id, the flag word
\* and the lengths of Question, Answer, Ns and Extra.
C7_HeaderWireEncoding ==
    (wire.run /\ wire.ok /\ dns.Opcode \in 0..15 /\ dns.Rcode \in 0..15) =>
        /\ Len(wire.msg) >= 12
        /\ wire.msg[1] = dns.Id \div 256
        /\ wire.msg[2] = dns.Id % 256
        /\ wire.msg[3] = ExpectedBits(dns) \div 256
        /\ wire.msg[4] = ExpectedBits(dns) % 256
        /\ SubSeq(wire.msg, 5, 12) =
              <<Len(dns.Question) \div 256, Len(dns.Question) % 256,
                Len(dns.Answer) \div 256, Len(dns.Answer) % 256,
                Len(dns.Ns) \div 256, Len(dns.Ns) % 256,
                Len(dns.Extra) \div 256, Len(dns.Extra) % 256>>

\* Pack has succeeded on a message with every flag set, opcode 15 and rcode 15
C7_Witness ==
    /\ wire.run
    /\ wire.ok
    /\ \A fl \in Flags : dns[fl]
    /\ dns.Opcode = 15
    /\ dns.Rcode = 15
    /\ Len(dns.Question) = 1

(***************************************************************************)
(* SpecDecode: Msg.Unpack and a threaded sequence of unpackRR calls, run   *)
(* on received buffers: a header declaring one or two answers, an optional *)
(* question, one record whose name, type, rdlength and payload are drawn   *)
(* independently (so rdlength may disagree with the payload or reach past  *)
(* the buffer), and an optional trailing byte; also buffers cut short      *)
(* inside the header.                                                      *)
(***************************************************************************)
MaxRdlength == 6

MaxCalls == 2

\* the root, "a.", and a pointer to offset 0 (the id, 0 in these buffers: a root name)
DecodeNames == {<<0>>, <<1, 97, 0>>, <<192, 0>>}

\* A, NS, TXT, OPT, DS, DNSKEY and a type code rr_mk does not know
DecodeTypes == {1, 2, 16, 41, 43, 48, 99}

DecodePayloads ==
    {<<>>, <<10, 0, 0>>, <<10, 0, 0, 1>>, <<1, 97, 0>>, <<192, 0>>,
     <<0, 1, 8, 1>>, <<0, 1, 8, 1, 171, 205>>, <<2, 104, 105>>, <<5, 104>>}

DecodeHeader(qd, an) == <<0, 0, 0, 0, 0, qd, 0, an, 0, 0, 0, 0>>

\* the question "a." IN A
QuestionWire == <<1, 97, 0, 0, 1, 0, 1>>

RRWire(name, rrtype, rdlength, payload) ==
    name \o U16(rrtype) \o U16(1) \o U32(<<0, 60>>) \o U16(rdlength) \o payload

DecodeBufs ==
    {DecodeHeader(qd, an) \o (IF qd = 1 THEN QuestionWire ELSE <<>>)
        \o RRWire(name, rrtype, rdlength, payload) \o tail :
        qd \in {0, 1}, an \in {1, 2}, name \in DecodeNames, rrtype \in DecodeTypes,
        rdlength \in 0..MaxRdlength, payload \in DecodePayloads, tail \in {<<>>, <<7>>}}
    \cup {Rep(0, n) : n \in {0, 11, 12}}

InitDecode ==
    /\ msg \in DecodeBufs
    /\ off = IF Len(msg) >= 12 THEN 12 ELSE Len(msg)
    /\ dns = NewMsg
    /\ wire = NotRun
    /\ back = NotRun
    /\ IdleCalls
    /\ IdleName

\* ok := new(Msg).Unpack(msg)
DecodeMsg ==
    /\ ~back.run
    /\ calls = 0
    /\ \E u \in {Unpack(msg)} :
         back' = [run |-> TRUE, dns |-> u.dns, ok |-> u.ok, fault |-> u.fault]
    /\ UNCHANGED <<dns, wire, msg, off, callVars, nameVars>>

\* rr, off, ok = unpackRR(msg, off), the offset threaded from the call before
DecodeRR ==
    /\ ~back.run
    /\ calls < MaxCalls
    /\ last.op = "unpackRR" => last.res.fault = ""
    /\ \E r \in {unpackRR(msg, off)} :
         /\ last' = [op |-> "unpackRR", off0 |-> off, res |-> r]
         /\ off' = r.off
         /\ ok' = r.ok
         /\ failed' = (failed \/ ~r.ok)
    /\ calls' = calls + 1
    /\ UNCHANGED <<msg, msgVars, nameVars>>

NextDecode ==
    \/ DecodeMsg
    \/ DecodeRR

SpecDecode == InitDecode /\ [][NextDecode]_vars

\* C2: bounds safety of decoding.  No buffer access made during Unpack, or
\* during an unpackRR call, indexes or slices the buffer outside 0..len(msg):
\* both always end by returning, whatever the buffer declares.
C2_DecodeInBounds ==
    /\ back.run => back.fault = ""
    /\ last.op = "unpackRR" => last.res.fault = ""

\* the 16-bit big-endian number at Go offset o of m
WireU16(m, o) == m[o + 1] * 256 + m[o + 2]

\* the payload of the record at o, of type code rrtype, decodes: its type has
\* no decoder, or the decoder of its type returns ok = true
PayloadDecodes(m, o, rrtype) ==
    \/ rr_mk(rrtype) = ""
    \/ \E p \in {unpackStruct(rr_mk(rrtype), ZeroStruct(rr_mk(rrtype)), m, o)} :
          p.fault = "" /\ p.ok

\* the offset after n questions that start at o, -1 if one is not whole
RECURSIVE WalkQuestions(_, _, _)
WalkQuestions(m, o, n) ==
    IF n = 0 \/ o < 0 THEN o
    ELSE Only({IF ~nm.ok \/ nm.off + 4 > Len(m) THEN -1
               ELSE WalkQuestions(m, nm.off + 4, n - 1) :
                 nm \in {unpackDomainName(m, o)}})

\* the offset after n records that start at o, -1 if one of them is not
\* whole inside the buffer or has a payload that does not decode
RECURSIVE WalkRRs(_, _, _)
WalkRRs(m, o, n) ==
    IF n = 0 \/ o < 0 THEN o
    ELSE Only({IF ~nm.ok \/ nm.off + 10 > Len(m) THEN -1
               ELSE IF nm.off + 10 + WireU16(m, nm.off + 8) > Len(m) THEN -1
               ELSE IF ~PayloadDecodes(m, o, WireU16(m, nm.off)) THEN -1
               ELSE WalkRRs(m, nm.off + 10 + WireU16(m, nm.off + 8), n - 1) :
                 nm \in {unpackDomainName(m, o)}})

\* where the records the header declares end, -1 if they are not all there
DeclaredEnd(m) ==
    IF Len(m) < 12 THEN -1
    ELSE WalkRRs(m, WalkQuestions(m, 12, WireU16(m, 4)),
                 WireU16(m, 6) + WireU16(m, 8) + WireU16(m, 10))

\* C4: Unpack returns true only if every question and record the header
\* counts declare was decoded from bytes inside the buffer (a record whose
\* rdlength reaches past the buffer, or whose payload fails to decode, makes
\* it return false); bytes left over after the last declared record do not
\* make it fail.
C4_TrueOnlyIfAllDeclaredDecoded ==
    back.run =>
        /\ back.ok => DeclaredEnd(msg) >= 0
        /\ (DeclaredEnd(msg) >= 0 /\ DeclaredEnd(msg) < Len(msg)) => back.ok

\* C10: rdlength enforcement on decode.  When unpackRR returns ok = true for
\* the record at off0, the offset it returns is end = (offset after the
\* header) + rdlength; the record is typed exactly when its type is known and
\* its payload decoder stopped at end, having consumed rdlength bytes; in every
\* other case the result is the bare header.
C10_RdlengthEnforced ==
    (last.op = "unpackRR" /\ last.res.fault = "" /\ last.res.ok) =>
        \E nm \in {unpackDomainName(msg, last.off0)} :
          /\ nm.ok
          /\ nm.off + 10 <= Len(msg)
          /\ \E rrtype \in {WireU16(msg, nm.off)},
                end \in {nm.off + 10 + WireU16(msg, nm.off + 8)} :
               /\ last.res.off = end
               /\ last.res.rr.t \in {"RR_Header", rr_mk(rrtype)}
               /\ IF rr_mk(rrtype) = "" THEN last.res.rr.t = "RR_Header"
                  ELSE \E p \in {unpackStruct(rr_mk(rrtype), ZeroStruct(rr_mk(rrtype)),
                                              msg, last.off0)} :
                         IF p.ok /\ p.off = end
                         THEN last.res.rr = [t |-> rr_mk(rrtype), v |-> p.val]
                         ELSE last.res.rr.t = "RR_Header"
               /\ last.res.rr.t = "RR_Header" =>
                     last.res.rr.v = [Name |-> nm.s, Rrtype |-> rrtype,
                                      Class |-> WireU16(msg, nm.off + 2),
                                      Ttl |-> <<WireU16(msg, nm.off + 4),
                                                WireU16(msg, nm.off + 6)>>,
                                      Rdlength |-> WireU16(msg, nm.off + 8)]

\* unpackRR has returned the bare header, at end, for an A record that
\* declares rdlength = 3 and is followed by four bytes
C10_Witness ==
    /\ last.op = "unpackRR"
    /\ last.off0 = 12
    /\ last.res.ok
    /\ last.res.rr.t = "RR_Header"
    /\ last.res.rr.v.Rrtype = 1
    /\ last.res.rr.v.Rdlength = 3
    /\ last.res.off = Len(msg) - 1
    /\ Slice(msg, last.res.off - 3, Len(msg)) = <<10, 0, 0, 1>>

(***************************************************************************)
(* SpecEncode: a caller threads one offset through a sequence of packer    *)
(* and unpacker calls on one buffer, as Msg.Pack and Msg.Unpack do, on     *)
(* buffers too small for anything and on buffers with room.                *)
(***************************************************************************)
MaxBuf == 3

\* a name of four labels of 63 bytes: 257 bytes on the wire
LongName == Rep(97, 63) \o <<Dot>> \o Rep(97, 63) \o <<Dot>> \o Rep(97, 63) \o <<Dot>>
            \o Rep(97, 63) \o <<Dot>>

\* ".", "a.", "a", "a..b.", a label of 63 bytes, a label of 64 bytes, LongName
EncodeNames ==
    {RootName, NameA, <<97>>, <<97, Dot, Dot, 98, Dot>>, Rep(97, 63) \o <<Dot>>,
     Rep(97, 64) \o <<Dot>>, LongName}

EncodeRRs ==
    {RR_A(NameA), RR_NS(NameA), RR_TXT(NameA, <<104, 105>>), RR_DS(NameA, HexLower),
     RR_DNSKEY(NameA, B64abc), RR_DNSKEY(NameA, B64a), RR_OPT(<<>>), RR_OPT(OneOption),
     NilRR}

EncodeSizes == (0..MaxBuf) \cup {64, 300}

InitEncode ==
    /\ msg \in {Rep(0, n) : n \in EncodeSizes}
    /\ off \in {0, Len(msg)}
    /\ IdleCalls
    /\ IdleName
    /\ IdleMsg

\* the caller may go on: it has calls left and the call before did not panic
CanCall == calls < MaxCalls /\ (last.op # "none" => last.res.fault = "")

\* what one call leaves behind: the buffer, the threaded offset, the last ok
Called(op, arg, r) ==
    /\ last' = [op |-> op, arg |-> arg, off0 |-> off, before |-> msg,
                res |-> [msg |-> r.msg, off |-> r.off, ok |-> r.ok, fault |-> r.fault]]
    /\ msg' = r.msg
    /\ off' = r.off
    /\ ok' = r.ok
    /\ failed' = (failed \/ ~r.ok)
    /\ calls' = calls + 1
    /\ UNCHANGED <<msgVars, nameVars>>

\* off, ok = packDomainName(s, msg, off)
DoPackDomainName ==
    /\ CanCall
    /\ \E s \in EncodeNames : \E r \in {packDomainName(s, msg, off)} :
          Called("packDomainName", s, r)

\* off, ok = packStruct(&question, msg, off)
DoPackStruct ==
    /\ CanCall
    /\ \E q \in {Q(NameA, 1), Q(RootName, 2)} :
       \E r \in {packStruct("Question", q, msg, off)} :
          Called("packStruct", q, r)

\* off, ok = packRR(rr, msg, off)
DoPackRR ==
    /\ CanCall
    /\ \E rr \in EncodeRRs : \E r \in {packRR(rr, msg, off)} :
          Called("packRR", rr, r)

\* s, off, ok = unpackDomainName(msg, off)
DoUnpackDomainName ==
    /\ CanCall
    /\ \E r \in {unpackDomainName(msg, off)} :
          Called("unpackDomainName", <<>>, [msg |-> msg, off |-> r.off, ok |-> r.ok,
                                            fault |-> ""])

\* rr, off, ok = unpackRR(msg, off)
DoUnpackRR ==
    /\ CanCall
    /\ \E r \in {unpackRR(msg, off)} :
          Called("unpackRR", <<>>, [msg |-> msg, off |-> r.off, ok |-> r.ok,
                                    fault |-> r.fault])

NextEncode ==
    \/ DoPackDomainName
    \/ DoPackStruct
    \/ DoPackRR
    \/ DoUnpackDomainName
    \/ DoUnpackRR

SpecEncode == InitEncode /\ [][NextEncode]_vars

\* the bytes from index i of w are labels, each a length byte in 1..63 and
\* that many bytes, up to a zero byte that is the last byte of w
RECURSIVE WireNameOk(_, _)
WireNameOk(w, i) ==
    /\ i <= Len(w)
    /\ IF w[i] = 0 THEN i = Len(w)
       ELSE /\ w[i] \in 1..63
            /\ i + w[i] < Len(w)
            /\ WireNameOk(w, i + w[i] + 1)

\* s has a label of more than 63 bytes
HasLongLabel(s) ==
    \E i \in 1..(Len(s) - 63) : \A j \in i..(i + 63) : s[j] # Dot

\* C6: packDomainName succeeds only by writing a well-formed wire name.  When
\* it returns ok = true for a name other than the root, the bytes it wrote are
\* labels with length bytes in 1..63, the only zero length byte is the last
\* byte, and they are at most 255 bytes; a name with a label longer than 63
\* bytes or a wire length above 255 is refused with ok = false and
\* off1 = len(msg); the root name writes exactly one zero byte.
C6_WellFormedWireName ==
    last.op = "packDomainName" =>
        /\ (last.res.ok /\ Canonical(last.arg) # RootName) =>
              /\ WireNameOk(Slice(last.res.msg, last.off0, last.res.off), 1)
              /\ last.res.off - last.off0 <= 255
        /\ (HasLongLabel(Canonical(last.arg)) \/ Len(Canonical(last.arg)) + 1 > 255) =>
              /\ ~last.res.ok
              /\ last.res.off = Len(msg)
        /\ (last.res.ok /\ Canonical(last.arg) = RootName) =>
              Slice(last.res.msg, last.off0, last.res.off) = <<0>>

\* C8: rdlength accounting on encode.  After packRR succeeds for a record
\* packed at off0, whose wire header ends at hend inside the buffer, the
\* rdlength in that header is off2 - hend, that is the number of payload bytes
\* of the record, and no byte outside [off0, off2) was written, so the record
\* that starts at off2 overwrites nothing of this one.
C8_RdlengthAccounting ==
    (/\ last.op = "packRR" /\ last.res.fault = "" /\ last.res.ok
     /\ last.off0 + NameWireLen(HeaderOf(last.arg).Name) + 10 <= Len(msg)) =>
        \E hend \in {last.off0 + NameWireLen(HeaderOf(last.arg).Name) + 10} :
          /\ WireU16(last.res.msg, hend - 2) = last.res.off - hend
          /\ last.res.off - hend =
                RRWireLen(last.arg) - (NameWireLen(HeaderOf(last.arg).Name) + 10)
          /\ \A i \in 1..Len(msg) :
                (i <= last.off0 \/ i > last.res.off) => last.res.msg[i] = last.before[i]

\* C9: sticky failure convention.  A packer or unpacker that fails returns
\* ok = false with off1 = len(msg); one that is invoked at off = len(msg)
\* returns ok = false, a failed nested struct included; so once a call of a
\* sequence that threads the offset has failed, the ok of the last call is false.
C9_StickyFailure ==
    (last.op # "none" /\ last.res.fault = "") =>
        /\ ~last.res.ok => last.res.off = Len(msg)
        /\ last.off0 = Len(msg) => ~last.res.ok
        /\ failed => ~ok

(***************************************************************************)
(* SpecCompressed: unpackDomainName, one loop iteration at a time, on the  *)
(* buffers of SpecName and on longer buffers with compressed names: the    *)
(* name "foo.bar." followed by a pointer to it, and chains of MaxPointers  *)
(* and of MaxPointers + 1 pointers that end in a zero byte.                *)
(***************************************************************************)
\* 03 f o o 03 b a r 00 C0 00
FooBarBuf == <<3, 102, 111, 111, 3, 98, 97, 114, 0, 192, 0>>

\* n pointers, the one at offset 2i pointing at offset 2i + 2, then "a." and the zero byte
PointerChain(n) ==
    [i \in 1..(2 * n) |-> IF i % 2 = 1 THEN 192 ELSE i] \o <<1, 97, 0>>

InitCompressed ==
    /\ msg \in NameBufs \cup {FooBarBuf, PointerChain(MaxPointers),
                              PointerChain(MaxPointers + 1)}
    /\ off \in 0..Len(msg)
    /\ nst = UDNInit(off)
    /\ steps = 0
    /\ IdleCalls
    /\ IdleMsg

SpecCompressed == InitCompressed /\ [][NextName]_vars /\ WF_vars(NextName)

\* the name at o, read as the wire format defines it, after k pointers:
\* kind "name" with its text when the chain of labels and pointers ends in a
\* zero byte, "bad" when a length byte has top bits 01 or 10 or a label or
\* pointer runs past the buffer, "long" when an 11th pointer is met
RECURSIVE RefName(_, _, _)
RefName(m, o, k) ==
    IF o >= Len(m) THEN [kind |-> "bad", s |-> <<>>]
    ELSE IF m[o + 1] = 0 THEN [kind |-> "name", s |-> <<>>]
    ELSE IF m[o + 1] < 64
    THEN IF o + 1 + m[o + 1] > Len(m) THEN [kind |-> "bad", s |-> <<>>]
         ELSE Only({[kind |-> r.kind,
                     s |-> SubSeq(m, o + 2, o + 1 + m[o + 1]) \o <<Dot>> \o r.s] :
                       r \in {RefName(m, o + 1 + m[o + 1], k)}})
    ELSE IF m[o + 1] < 192 THEN [kind |-> "bad", s |-> <<>>]
    ELSE IF o + 2 > Len(m) THEN [kind |-> "bad", s |-> <<>>]
    ELSE IF k = 10 THEN [kind |-> "long", s |-> <<>>]
    ELSE RefName(m, (m[o + 1] - 192) * 256 + m[o + 2], k + 1)

\* the offset after the literal labels at o and the zero byte or the pointer that ends them
RECURSIVE RefAfter(_, _)
RefAfter(m, o) ==
    IF m[o + 1] = 0 THEN o + 1
    ELSE IF m[o + 1] >= 192 THEN o + 2
    ELSE RefAfter(m, o + 1 + m[o + 1])

\* C11: compressed-name decoding.  When the name at off is a chain of literal
\* labels and at most 10 in-range pointers that ends in a zero byte,
\* unpackDomainName returns ok = true, the labels in the order visited, each
\* followed by ".", and off1 just after the first pointer's two bytes, or
\* just after the zero byte when there is no pointer; a length byte with top
\* bits 01 or 10, or a label or pointer that runs past len(msg), gives
\* ok = false.
C11_CompressedNameDecoding ==
    nst.pc # "loop" =>
        \E r \in {RefName(msg, off, 0)} :
           /\ r.kind = "name" =>
                 /\ nst.pc = "ok"
                 /\ nst.s = r.s
                 /\ nst.off1 = RefAfter(msg, off)
           /\ r.kind = "bad" => nst.pc = "fail"

\* "foo.bar." has been decoded at offset 9 of FooBarBuf, through the pointer
C11_Witness ==
    /\ msg = FooBarBuf
    /\ off = 9
    /\ nst.pc = "ok"
    /\ nst.ptr = 1
    /\ nst.s = <<102, 111, 111, Dot, 98, 97, 114, Dot>>
    /\ nst.off1 = 11

====
